---- MODULE Spec2Model ----
(***************************************************************************)
(* SMTG backend (src/backend/app.py): the SQLite store of sessions, focus  *)
(* sessions and nudges, the HTTP handlers that write it, and the three     *)
(* analysis endpoints computed from it (behavior analysis, dashboard,      *)
(* weekly insights).                                                       *)
(*                                                                         *)
(* Time is counted in whole hours since the midnight that starts day 0,    *)
(* a Sunday.  A TEXT timestamp is the tuple <<day, separator, hour>>: the  *)
(* zero-padded date field, the character between date and time, and the   *)
(* zero-padded time field, so that SQLite's bytewise TEXT comparison is    *)
(* the lexicographic comparison of the tuples.  The 'Z' suffix follows the *)
(* time field and never decides a comparison made here.                    *)
(*                                                                         *)
(* A decimal result is the pair <<n, d>>, the rational n/d.                *)
(***************************************************************************)
EXTENDS Integers, Sequences, FiniteSets, Bags, TLC

VARIABLES now, sessions, focus_sessions, nudges, profile, settings,
          subscription, response, call, backlog

vars == <<now, sessions, focus_sessions, nudges, profile, settings,
          subscription, response, call, backlog>>

store == <<sessions, focus_sessions, nudges, profile, settings, subscription>>

----------------------------------------------------------------------------
(* Bounds of the model.                                                    *)

\* rows of each table in the specification of the whole API
MaxRows == 1
\* rows of the sessions table in the dashboard specification
MaxSessions == 2
\* rows of the sessions table in the insights specification
InsightsMaxSessions == 3
\* the largest increase of today's minutes the monotonicity is tried on
MaxIncrease == 50
\* rows of the sessions table in the specification of the ratios
RatioMaxSessions == 7
\* rows of the focus_sessions table
MaxFocus == 2
\* rows of the nudges table
MaxNudges == 2
\* rows of the sessions table in the specification of the risk thresholds
RiskMaxSessions == 39
\* rows of each table in the specification of the written values
MaxStored == 2
\* rows of the sessions and of the nudges table in the server specification
MaxServed == 2
\* requests waiting in the listen queue of the server
MaxBacklog == 1

\* the clock reading at process start: day 7 (a Sunday), 20:00 UTC
StartHour == 188
\* the instants at which the clock is read after start: 22:00 the same day
\* and 22:00 six days after start
ClockReadings == {StartHour + 2, StartHour + 146}
\* the later instant alone, for the dashboard
DashboardReadings == {StartHour + 146}

----------------------------------------------------------------------------
(* Timestamps as text, and SQLite's date and time functions.               *)

\* the character 'T' that datetime.isoformat() puts between date and time
SepT == 84
\* the character ' ' that SQLite's datetime() puts between date and time
SepSpace == 32
\* SQL NULL: what strftime() and date() return for text that is no date
NULL == -1

Day(t) == t \div 24
Hour(t) == t % 24

\* datetime.utcnow().replace(microsecond=0).isoformat() + "Z"
now_iso(t) == <<Day(t), SepT, Hour(t)>>

\* SQLite datetime('now', '-6 days'): 'YYYY-MM-DD HH:MM:SS'
datetime_minus_6_days(t) == <<Day(t - 144), SepSpace, Hour(t - 144)>>

\* texts that are no timestamp: the empty string and the string "T"
EmptyText == <<>>
LetterText == <<SepT>>

\* SQLite parses 'YYYY-MM-DDTHH:MM:SSZ' and 'YYYY-MM-DD HH:MM:SS'
IsTimestamp(x) == Len(x) = 3 /\ x[2] \in {SepT, SepSpace}

\* the instant a parseable text denotes
TimeOf(x) == x[1] * 24 + x[3]

\* strftime('%H', x): the hour field; NULL when x is no timestamp
strftime_H(x) == IF IsTimestamp(x) THEN x[3] ELSE NULL
\* strftime('%w', x): day of week, 0 = Sunday; NULL when x is no timestamp
strftime_w(x) == IF IsTimestamp(x) THEN x[1] % 7 ELSE NULL
\* date(x): the date field; NULL when x is no timestamp
date(x) == IF IsTimestamp(x) THEN x[1] ELSE NULL

\* SQLite's comparison of two TEXT values (BINARY collation): a < b
RECURSIVE TextLess(_, _)
TextLess(a, b) ==
  IF b = <<>> THEN FALSE
  ELSE IF a = <<>> THEN TRUE
  ELSE IF Head(a) # Head(b) THEN Head(a) < Head(b)
  ELSE TextLess(Tail(a), Tail(b))

\* a >= b on TEXT
TextGE(a, b) == ~TextLess(a, b)

----------------------------------------------------------------------------
(* Aggregates over a table.  A table is the bag of its rows: the rowid,    *)
(* which no query of the program reads, is left out.                       *)

\* the sum of the values of a function with a finite domain
RECURSIVE SumFn(_)
SumFn(f) ==
  IF DOMAIN f = {} THEN 0
  ELSE LET r == CHOOSE x \in DOMAIN f : TRUE
       IN  f[r] + SumFn([x \in DOMAIN f \ {r} |-> f[x]])

\* SELECT SUM(F(row)) FROM T
Sum(T, F(_)) == SumFn([r \in DOMAIN T |-> T[r] * F(r)])

\* SELECT COUNT(*) FROM T WHERE P(row)
Count(T, P(_)) == Sum(T, LAMBDA r : IF P(r) THEN 1 ELSE 0)

Min(a, b) == IF a < b THEN a ELSE b
Max(a, b) == IF a > b THEN a ELSE b

----------------------------------------------------------------------------
(* Double-precision arithmetic.                                            *)
(*                                                                         *)
(* round(x, 1) of a ratio 100*k/n: for every n below 80 the double         *)
(* (k/n)*100 rounds as the exact rational does, ties to even.              *)

\* 2^n for n >= 0
RECURSIVE Pow2(_)
Pow2(n) == IF n = 0 THEN 1 ELSE 2 * Pow2(n - 1)

\* 2^n mod 5 for n >= 0
Pow2Mod5(n) == <<1, 2, 4, 3>>[(n % 4) + 1]

\* the percentage left as it is, not rounded
round1_pct_unrounded(k, n) == <<100 * k, n>>

\* round((k / n) * 100, 1), n > 0
round1_pct(k, n) ==
  LET lo   == (1000 * k) \div n
      rem2 == 2 * ((1000 * k) % n)
  IN  IF rem2 < n THEN <<lo, 10>>
      ELSE IF rem2 > n THEN <<lo + 1, 10>>
      ELSE IF lo % 2 = 0 THEN <<lo, 10>> ELSE <<lo + 1, 10>>

\* floor(log2(s/n)) for s >= n >= 1
RECURSIVE Log2Quot(_, _, _)
Log2Quot(s, n, e) == IF s >= n * Pow2(e + 1) THEN Log2Quot(s, n, e + 1) ELSE e

\* round(x, 1) where x is the double nearest to s/n, the value of SQLite's
\* AVG over n integers of sum s (s >= n >= 1).  An exact decimal tie
\* s/n = T/20, T odd, is decided by the side of T/20 on which the nearest
\* double lies; when T/20 is itself a double, the tie goes to even.
round1_avg(s, n) ==
  LET lo   == (10 * s) \div n
      rem2 == 2 * ((10 * s) % n)
      T    == 2 * lo + 1
      E    == Log2Quot(s, n, 0)
  IN  IF rem2 < n THEN <<lo, 10>>
      ELSE IF rem2 > n THEN <<lo + 1, 10>>
      ELSE IF T % 5 = 0
           THEN (IF lo % 2 = 0 THEN <<lo, 10>> ELSE <<lo + 1, 10>>)
           ELSE IF ((T % 5) * Pow2Mod5(50 - E)) % 5 <= 2
                THEN <<lo, 10>> ELSE <<lo + 1, 10>>

\* a > c for the rational a = <<n, d>> and the integer c
Gt(a, c) == a[1] > c * a[2]

(* A double is written T/5 + err*u with T an integer and u = 2^-55 / 5:    *)
(* 0.8 is the double 4/5 + 8u and 0.6 is the double 3/5 - 4u.              *)

\* floor(log2(T/5)) for T >= 1; at least -3
RECURSIVE Log2Fifths(_, _)
Log2Fifths(T, e) ==
  IF (IF e + 1 >= 0 THEN 5 * Pow2(e + 1) <= T ELSE 5 <= T * Pow2(0 - (e + 1)))
  THEN Log2Fifths(T, e + 1) ELSE e

\* the binary exponent of T/5 + err*u, T >= 1
Exponent(T, err) ==
  LET e == Log2Fifths(T, 0 - 3)
  IN  IF err < 0 /\ e >= 0 /\ T = 5 * Pow2(e) THEN e - 1 ELSE e

\* err' such that T/5 + err'*u is the double nearest to T/5 + err*u
\* (round to nearest, ties to even), for T >= 1
FlPos(T, err) ==
  LET E  == Exponent(T, err)
      g  == 5 * Pow2(E + 3)
      r2 == (Pow2(E + 4) * (((T % 5) * Pow2Mod5(51 - E)) % 5) + err) % (2 * g)
      r  == r2 % g
  IN  IF 2 * r < g THEN err - r
      ELSE IF 2 * r > g THEN err - r + g
      ELSE IF r2 >= g THEN err - r + g ELSE err - r

\* the same for any T; a result with T = 0 is exact
Fl(T, err) ==
  IF T = 0 THEN err
  ELSE IF T > 0 THEN FlPos(T, err)
  ELSE 0 - FlPos(0 - T, 0 - err)

\* int(x) for the double x = T/5 + err*u: truncation toward zero
int_of_double(T, err) ==
  IF T >= 0
  THEN (IF T > 0 /\ T % 5 = 0 /\ err < 0 THEN (T \div 5) - 1 ELSE T \div 5)
  ELSE (IF (0 - T) % 5 = 0 /\ err > 0 THEN 1 - ((0 - T) \div 5)
        ELSE 0 - ((0 - T) \div 5))

\* int(100 - (scrolling * 0.8) + (focus_done * 0.6))
linear_score(scrolling, focus_done) ==
  LET ea == Fl(4 * scrolling, 8 * scrolling)
      eb == Fl(3 * focus_done, 0 - 4 * focus_done)
      Tc == 500 - 4 * scrolling
      ec == Fl(Tc, 0 - ea)
      Td == Tc + 3 * focus_done
      ed == Fl(Td, ec + eb)
  IN  int_of_double(Td, ed)

\* the weights of scrolling and of focus exchanged
focus_score_swapped(scrolling, focus_done) ==
  Max(0, Min(100, linear_score(focus_done, scrolling)))

\* max(0, min(100, int(100 - (scrolling * 0.8) + (focus_done * 0.6))))
focus_score(scrolling, focus_done) ==
  Max(0, Min(100, linear_score(scrolling, focus_done)))

----------------------------------------------------------------------------
(* build_behavior_analysis                                                 *)

IsScroll(r) == r.session_type = "scroll"

\* 0 if total == 0 else round((part / total) * 100, 1)
ratio_pct(part, total) == IF total = 0 THEN <<0, 1>> ELSE round1_pct(part, total)

\* SELECT COALESCE(AVG(duration_min),0) FROM sessions WHERE session_type='scroll'
avg_scroll_duration(S) ==
  LET n == Count(S, IsScroll)
  IN  IF n = 0 THEN <<0, 1>>
      ELSE <<Sum(S, LAMBDA r : IF IsScroll(r) THEN r.duration_min ELSE 0), n>>

\* round(avg_scroll_duration, 1)
round_avg(avg) == IF avg[1] = 0 THEN <<0, 1>> ELSE round1_avg(avg[1], avg[2])

\* SELECT COUNT(*) FROM sessions WHERE session_type='scroll'
\*   AND CAST(strftime('%H', started_at) AS INTEGER) >= 22
late_scroll(S) ==
  Count(S, LAMBDA r : IsScroll(r) /\ strftime_H(r.started_at) # NULL
                      /\ strftime_H(r.started_at) >= 22)

\* the three-tier classification, on the rounded ratio and the raw average
risk_level(scroll_ratio, avg) ==
  IF Gt(scroll_ratio, 55) \/ Gt(avg, 24) THEN "high"
  ELSE IF Gt(scroll_ratio, 35) \/ Gt(avg, 16) THEN "medium"
  ELSE "low"

\* the night-mode advice chosen by late >= 0 in place of late > 0
recommendations_nonneg(late) ==
  << IF late >= 0 THEN "Set a stricter night mode threshold after 10 PM."
                  ELSE "Keep night mode gentle reminders enabled.",
     "Use 10-15 minute focus blocks after each nudge.",
     "Prioritize study/work modes on weekdays." >>

recommendations(late) ==
  << IF late > 0 THEN "Set a stricter night mode threshold after 10 PM."
                 ELSE "Keep night mode gentle reminders enabled.",
     "Use 10-15 minute focus blocks after each nudge.",
     "Prioritize study/work modes on weekdays." >>

\* the nudge acceptance rate of build_behavior_analysis
nudge_accept_rate(N) ==
  ratio_pct(Count(N, LAMBDA r : r.response = "start_focus"),
            Count(N, LAMBDA r : TRUE))

build_behavior_analysis(S, N) ==
  LET total_sessions      == Count(S, LAMBDA r : TRUE)
      scroll_sessions     == Count(S, IsScroll)
      productive_sessions == Count(S, LAMBDA r : r.productive = 1)
      avg          == avg_scroll_duration(S)
      late         == late_scroll(S)
      scroll_ratio == ratio_pct(scroll_sessions, total_sessions)
  IN  [ risk_level                 |-> risk_level(scroll_ratio, avg),
        scroll_ratio_pct           |-> scroll_ratio,
        productive_ratio_pct       |-> ratio_pct(productive_sessions, total_sessions),
        avg_scroll_session_min     |-> round_avg(avg),
        late_night_scroll_sessions |-> late,
        nudge_accept_rate          |-> nudge_accept_rate(N),
        recommendations            |-> recommendations(late) ]

----------------------------------------------------------------------------
(* GET /api/dashboard                                                      *)

\* date(started_at) = date('now'); a NULL date equals nothing
IsToday(text, t) == date(text) # NULL /\ date(text) = Day(t)

\* SELECT COUNT(*) FROM focus_sessions WHERE created_at >= datetime('now','-6 days')
streak(F, t) == Count(F, LAMBDA r : TextGE(r.created_at, datetime_minus_6_days(t)))

\* min(streak, 7)
streak_days(F, t) == Min(streak(F, t), 7)

dashboard(p, S, F, t) ==
  LET total      == Sum(S, LAMBDA r : IF IsToday(r.started_at, t)
                                      THEN r.duration_min ELSE 0)
      focus_done == Sum(F, LAMBDA r : IF IsToday(r.created_at, t)
                                      THEN r.completed_min ELSE 0)
      scrolling  == Sum(S, LAMBDA r : IF IsScroll(r) /\ IsToday(r.started_at, t)
                                      THEN r.duration_min ELSE 0)
  IN  [ name                |-> p.name,
        goal_minutes        |-> p.goal_minutes,
        used_minutes        |-> total,
        focus_saved_minutes |-> focus_done,
        focus_score         |-> focus_score(scrolling, focus_done),
        streak_days         |-> streak_days(F, t) ]

----------------------------------------------------------------------------
(* GET /api/insights                                                       *)

\* WHERE started_at >= datetime('now','-6 days')
InWeeklyQuery(r, t) == TextGE(r.started_at, datetime_minus_6_days(t))

\* the rows of: SELECT strftime('%w', started_at) as d, SUM(duration_min)
\* FROM sessions WHERE started_at >= datetime('now','-6 days') GROUP BY d
weekly(S, t) ==
  LET ds == { strftime_w(r.started_at) : r \in { x \in DOMAIN S : InWeeklyQuery(x, t) } }
  IN  { [ d    |-> d,
          mins |-> Sum(S, LAMBDA r : IF InWeeklyQuery(r, t)
                                        /\ strftime_w(r.started_at) = d
                                     THEN r.duration_min ELSE 0) ] : d \in ds }

\* by_day = {str(i): 0 for i in range(7)}; for r in weekly: by_day[r["d"]] = r["mins"]
by_day(rows) ==
  [ d \in (0 .. 6) \cup { r.d : r \in rows } |->
      IF \E r \in rows : r.d = d THEN (CHOOSE r \in rows : r.d = d).mins ELSE 0 ]

\* [by_day[str(i)] for i in [1, 2, 3, 4, 5, 6, 0]]
ordered(S, t) ==
  LET b == by_day(weekly(S, t))
  IN  << b[1], b[2], b[3], b[4], b[5], b[6], b[0] >>

\* the rows of: SELECT strftime('%H', started_at) as h, COUNT(*) as c
\* FROM sessions WHERE session_type='scroll' GROUP BY h
hour_groups(S) ==
  LET hs == { strftime_H(r.started_at) : r \in { x \in DOMAIN S : IsScroll(x) } }
  IN  { [ h |-> h,
          c |-> Count(S, LAMBDA r : IsScroll(r) /\ strftime_H(r.started_at) = h) ]
        : h \in hs }

\* ORDER BY c DESC, h DESC: g comes before or with g2 (NULL sorts below
\* every hour)
SortsFirst(g, g2) == g.c > g2.c \/ (g.c = g2.c /\ g.h >= g2.h)

\* hour = top_hour["h"] if top_hour else "22", top_hour the row LIMIT 1 keeps
top_hour(S) ==
  LET groups == hour_groups(S)
  IN  IF groups = {} THEN 22
      ELSE (CHOOSE g \in groups : \A g2 \in groups : SortsFirst(g, g2)).h

\* the nudge acceptance rate of the insights handler
accept_rate(N) ==
  LET nudge_accept == Count(N, LAMBDA r : r.response = "start_focus")
      nudge_total  == Count(N, LAMBDA r : TRUE)
  IN  IF nudge_total = 0 THEN <<0, 1>> ELSE round1_pct(nudge_accept, nudge_total)

\* f"Most scrolling happens after {hour}:00.": hour is the two-digit text of
\* an hour, or "None" when it is NULL
ai_sentence(hour) == << "Most scrolling happens after ", hour, ":00." >>

insights(S, N, t) ==
  LET behavior == build_behavior_analysis(S, N)
  IN  [ weekly_minutes    |-> ordered(S, t),
        time_saved_weekly |-> << 18, 24, 31, 36 >>,
        nudge_accept_rate |-> accept_rate(N),
        ai_sentence       |-> ai_sentence(top_hour(S)),
        behavior_risk     |-> behavior.risk_level,
        scroll_ratio_pct  |-> behavior.scroll_ratio_pct ]

----------------------------------------------------------------------------
(* Requests.  A JSON field is <<"absent", 0>> when the key is missing,     *)
(* <<"int", n>> for a value int() converts to n, <<"bad", 0>> for a value  *)
(* int() rejects with TypeError or ValueError, <<"str", s>> for a string   *)
(* and <<"text", x>> for a timestamp text; <<"inf", 0>> is the float       *)
(* Infinity, which json.loads accepts and int() rejects with an            *)
(* OverflowError that safe_int does not catch.                             *)

Absent == <<"absent", 0>>
JInt(n) == <<"int", n>>
JBad == <<"bad", 0>>
JInf == <<"inf", 0>>
JStr(x) == <<"str", x>>
JText(x) == <<"text", x>>

\* data.get(key, default)
Get(field, default) == IF field[1] = "absent" THEN default ELSE field

\* int(value) raises an exception safe_int lets through
Raises(value) == value[1] = "inf"

\* safe_int without its upper limit
safe_int_no_maximum(value, default, minimum, maximum) ==
  LET parsed == IF value[1] = "int" THEN value[2] ELSE default
  IN  Max(minimum, parsed)

\* safe_int(value, default, minimum, maximum)
safe_int(value, default, minimum, maximum) ==
  LET parsed == IF value[1] = "int" THEN value[2] ELSE default
  IN  Min(maximum, Max(minimum, parsed))

\* the rows init_db inserts into an empty sessions table
seed == << [app |-> "Instagram", type |-> "scroll",   dur |-> 28, prod |-> 0],
           [app |-> "YouTube",   type |-> "watch",    dur |-> 20, prod |-> 0],
           [app |-> "Docs",      type |-> "work",     dur |-> 50, prod |-> 1],
           [app |-> "TikTok",    type |-> "scroll",   dur |-> 32, prod |-> 0],
           [app |-> "Chrome",    type |-> "research", dur |-> 25, prod |-> 1],
           [app |-> "Instagram", type |-> "scroll",   dur |-> 18, prod |-> 0] >>

\* start = utcnow() - 6 days; row i starts at start + i days + 3 hours
SeedRows(t) ==
  { [ app_name     |-> seed[i + 1].app,
      session_type |-> seed[i + 1].type,
      duration_min |-> seed[i + 1].dur,
      productive   |-> seed[i + 1].prod,
      started_at   |-> now_iso((t - 144) + 24 * i + 3),
      created_at   |-> now_iso(t) ] : i \in 0 .. 5 }

\* the single rows init_db inserts when they are missing
ProfileRow(t) ==
  [ name |-> "User", goal_minutes |-> 120, timezone |-> "UTC",
    created_at |-> now_iso(t), updated_at |-> now_iso(t) ]

SettingsRow(t) ==
  [ study_mode |-> 1, work_mode |-> 1, sleep_mode |-> 1, nudge_enabled |-> 1,
    nudge_threshold_min |-> 18, theme |-> "light", onboarding_done |-> 0,
    updated_at |-> now_iso(t) ]

SubscriptionRow(t) ==
  [ plan |-> "free", trial_ends_at |-> now_iso(t + 14 * 24),
    updated_at |-> now_iso(t) ]

ALLOWED_THEMES == {"light", "dark", "amoled", "calm_blue", "forest_green"}
ALLOWED_RESPONSES == {"start_focus", "snooze", "dismiss"}

\* _send_json(payload, status): send_response stamps the Date header
Reply(status, kind, body) ==
  [ status |-> status, date |-> now, kind |-> kind, body |-> body ]

\* _send_error(status, message)
ErrorReply(status, message) == Reply(status, "error", [error |-> message])

\* the handler raised: the server logs the exception and closes the
\* connection without a response
NoReply == Reply(0, "none", [ok |-> FALSE])

----------------------------------------------------------------------------
(* The analysis calls query by query.  Each conn.execute is a statement of *)
(* its own, outside any transaction, and reads the tables as they are when *)
(* it runs.  call is the analysis call the handler is in: its endpoint,    *)
(* the results of the statements executed so far, and the states of the    *)
(* sessions and nudges tables that existed since it began.                 *)

NoCall == [ pc |-> "idle", kind |-> "none", q |-> << >>, during |-> {},
            raced |-> FALSE ]

\* the statements of build_behavior_analysis, in the order of execution
behavior_query(i, S, N) ==
  CASE i = 1 -> Count(S, LAMBDA r : TRUE)
    [] i = 2 -> Count(S, IsScroll)
    [] i = 3 -> Count(S, LAMBDA r : r.productive = 1)
    [] i = 4 -> avg_scroll_duration(S)
    [] i = 5 -> late_scroll(S)
    [] i = 6 -> Count(N, LAMBDA r : TRUE)
    [] i = 7 -> Count(N, LAMBDA r : r.response = "start_focus")

\* what build_behavior_analysis makes of the results of its statements
behavior_result(q) ==
  LET scroll_ratio == ratio_pct(q[2], q[1])
  IN  [ risk_level                 |-> risk_level(scroll_ratio, q[4]),
        scroll_ratio_pct           |-> scroll_ratio,
        productive_ratio_pct       |-> ratio_pct(q[3], q[1]),
        avg_scroll_session_min     |-> round_avg(q[4]),
        late_night_scroll_sessions |-> q[5],
        nudge_accept_rate          |-> ratio_pct(q[7], q[6]),
        recommendations            |-> recommendations(q[5]) ]

\* the statements of the insights handler: weekly, top_hour, nudge_accept,
\* nudge_total, then those of build_behavior_analysis
insights_query(i, S, N, t) ==
  CASE i = 1 -> weekly(S, t)
    [] i = 2 -> top_hour(S)
    [] i = 3 -> Count(N, LAMBDA r : r.response = "start_focus")
    [] i = 4 -> Count(N, LAMBDA r : TRUE)
    [] i > 4 -> behavior_query(i - 4, S, N)

\* what the insights handler makes of the results of its statements
insights_result(q) ==
  LET b        == by_day(q[1])
      behavior == behavior_result(SubSeq(q, 5, 11))
  IN  [ weekly_minutes    |-> << b[1], b[2], b[3], b[4], b[5], b[6], b[0] >>,
        time_saved_weekly |-> << 18, 24, 31, 36 >>,
        nudge_accept_rate |-> IF q[4] = 0 THEN <<0, 1>> ELSE round1_pct(q[3], q[4]),
        ai_sentence       |-> ai_sentence(q[2]),
        behavior_risk     |-> behavior.risk_level,
        scroll_ratio_pct  |-> behavior.scroll_ratio_pct ]

\* the number of statements of an analysis call
Statements(kind) == IF kind = "behavior" THEN 7 ELSE 11

----------------------------------------------------------------------------
(* The state after run(): init_db on a database file that did not exist.   *)

Init ==
  /\ now = StartHour
  /\ sessions = SetToBag(SeedRows(StartHour))
  /\ focus_sessions = EmptyBag
  /\ nudges = EmptyBag
  /\ profile = ProfileRow(StartHour)
  /\ settings = SettingsRow(StartHour)
  /\ subscription = SubscriptionRow(StartHour)
  /\ response = Reply(0, "none", [ok |-> TRUE])
  /\ call = NoCall
  /\ backlog = << >>

\* requests arrive one after the other: none waits in the listen queue and
\* each handler returns before the next request is sent
Sequential == UNCHANGED <<call, backlog>>

\* the process is started again on the database file it left: init_db
\* seeds the sessions table when it is empty and keeps the single rows
init_db ==
  /\ sessions' = IF BagCardinality(sessions) = 0
                 THEN SetToBag(SeedRows(now)) ELSE sessions
  /\ response' = Reply(0, "none", [ok |-> TRUE])
  /\ UNCHANGED <<now, focus_sessions, nudges, profile, settings, subscription>>

\* the wall clock moves on to a later reading
Tick(readings) ==
  /\ \E t \in readings : t > now /\ now' = t
  /\ UNCHANGED <<store, response>>

----------------------------------------------------------------------------
(* do_POST                                                                 *)

\* a body that is no JSON: 400, nothing written
PostInvalidJson ==
  /\ response' = ErrorReply(400, "Invalid JSON body")
  /\ UNCHANGED <<now, store>>

\* POST /api/sessions
PostSession(data, max) ==
  /\ BagCardinality(sessions) < max
  /\ IF \E k \in {"app_name", "session_type", "duration_min"} : data[k][1] = "absent"
     THEN /\ response' = ErrorReply(400, "Missing required fields")
          /\ UNCHANGED sessions
     ELSE IF Raises(data.duration_min) \/ Raises(data.productive)
     THEN /\ response' = NoReply
          /\ UNCHANGED sessions
     ELSE /\ sessions' = sessions (+) SetToBag({
               [ app_name     |-> data.app_name[2],
                 session_type |-> data.session_type[2],
                 duration_min |-> safe_int(data.duration_min, 1, 1, 600),
                 productive   |-> safe_int(Get(data.productive, JInt(0)), 0, 0, 1),
                 started_at   |-> Get(data.started_at, JText(now_iso(now)))[2],
                 created_at   |-> now_iso(now) ] })
          /\ response' = Reply(201, "ok", [ok |-> TRUE])
  /\ UNCHANGED <<now, focus_sessions, nudges, profile, settings, subscription>>

\* POST /api/focus-sessions
PostFocusSession(data, max) ==
  /\ BagCardinality(focus_sessions) < max
  /\ IF \E k \in DOMAIN data : Raises(data[k])
     THEN /\ response' = NoReply
          /\ UNCHANGED focus_sessions
     ELSE
     LET planned   == safe_int(Get(data.planned_min, JInt(15)), 15, 5, 180)
         completed == safe_int(Get(data.completed_min, JInt(planned)), planned, 1, planned)
         accepted  == safe_int(Get(data.accepted_from_nudge, JInt(0)), 0, 0, 1)
     IN  /\ focus_sessions' = focus_sessions (+) SetToBag({
              [ planned_min         |-> planned,
                completed_min       |-> completed,
                accepted_from_nudge |-> accepted,
                created_at          |-> now_iso(now) ] })
         /\ response' = Reply(201, "ok", [ok |-> TRUE, saved_minutes |-> completed])
  /\ UNCHANGED <<now, sessions, nudges, profile, settings, subscription>>

\* POST /api/nudges
PostNudge(data, max) ==
  /\ BagCardinality(nudges) < max
  /\ LET reason == Get(data.trigger_reason, JStr("scroll_threshold"))[2]
         resp   == Get(data.response, JStr("dismiss"))[2]
     IN  IF resp \notin ALLOWED_RESPONSES
         THEN /\ response' = ErrorReply(400, "Invalid nudge response")
              /\ UNCHANGED nudges
         ELSE /\ nudges' = nudges (+) SetToBag({
                   [ trigger_reason |-> reason,
                     response       |-> resp,
                     created_at     |-> now_iso(now) ] })
              /\ response' = Reply(201, "ok", [ok |-> TRUE])
  /\ UNCHANGED <<now, sessions, focus_sessions, profile, settings, subscription>>

----------------------------------------------------------------------------
(* do_PUT                                                                  *)

\* PUT /api/profile
PutProfile(data) ==
  /\ profile' = [ profile EXCEPT
                    !.name = Get(data.name, JStr("User"))[2],
                    !.goal_minutes = safe_int(Get(data.goal_minutes, JInt(120)), 120, 30, 360),
                    !.timezone = Get(data.timezone, JStr("UTC"))[2],
                    !.updated_at = now_iso(now) ]
  /\ response' = Reply(200, "ok", [ok |-> TRUE])
  /\ UNCHANGED <<now, sessions, focus_sessions, nudges, settings, subscription>>

\* PUT /api/settings
PutSettings(data) ==
  /\ LET theme == Get(data.theme, JStr("light"))[2]
     IN  IF theme \notin ALLOWED_THEMES
         THEN /\ response' = ErrorReply(400, "Invalid theme")
              /\ UNCHANGED settings
         ELSE /\ settings' =
                   [ study_mode    |-> safe_int(Get(data.study_mode, JInt(1)), 1, 0, 1),
                     work_mode     |-> safe_int(Get(data.work_mode, JInt(1)), 1, 0, 1),
                     sleep_mode    |-> safe_int(Get(data.sleep_mode, JInt(1)), 1, 0, 1),
                     nudge_enabled |-> safe_int(Get(data.nudge_enabled, JInt(1)), 1, 0, 1),
                     nudge_threshold_min |->
                       safe_int(Get(data.nudge_threshold_min, JInt(18)), 18, 5, 60),
                     theme           |-> theme,
                     onboarding_done |-> safe_int(Get(data.onboarding_done, JInt(1)), 1, 0, 1),
                     updated_at      |-> now_iso(now) ]
              /\ response' = Reply(200, "ok", [ok |-> TRUE])
  /\ UNCHANGED <<now, sessions, focus_sessions, nudges, profile, subscription>>

\* PUT /api/subscription
PutSubscription(data) ==
  /\ LET plan == Get(data.plan, JStr("free"))[2]
     IN  IF plan \notin {"free", "pro"}
         THEN /\ response' = ErrorReply(400, "Invalid plan")
              /\ UNCHANGED subscription
         ELSE /\ subscription' = [ subscription EXCEPT
                                     !.plan = plan, !.updated_at = now_iso(now) ]
              /\ response' = Reply(200, "ok", [ok |-> TRUE, plan |-> plan])
  /\ UNCHANGED <<now, sessions, focus_sessions, nudges, profile, settings>>

----------------------------------------------------------------------------
(* do_DELETE                                                               *)

\* DELETE /api/data
DeleteData ==
  /\ sessions' = EmptyBag
  /\ focus_sessions' = EmptyBag
  /\ nudges' = EmptyBag
  /\ response' = Reply(200, "ok", [ok |-> TRUE])
  /\ UNCHANGED <<now, profile, settings, subscription>>

----------------------------------------------------------------------------
(* do_GET                                                                  *)

\* GET /api/behavior/analyze
GetBehaviorAnalyze ==
  /\ response' = Reply(200, "behavior", build_behavior_analysis(sessions, nudges))
  /\ UNCHANGED <<now, store>>

\* a dashboard handler that writes the default profile row back
GetDashboard_writing ==
  /\ response' = Reply(200, "dashboard",
                       dashboard(profile, sessions, focus_sessions, now))
  /\ profile' = ProfileRow(now)
  /\ UNCHANGED <<now, sessions, focus_sessions, nudges, settings, subscription>>

\* GET /api/dashboard
GetDashboard ==
  /\ response' = Reply(200, "dashboard",
                       dashboard(profile, sessions, focus_sessions, now))
  /\ UNCHANGED <<now, store>>

\* GET /api/insights
GetInsights ==
  /\ response' = Reply(200, "insights", insights(sessions, nudges, now))
  /\ UNCHANGED <<now, store>>

\* GET /api/profile, /api/settings, /api/subscription
GetProfile ==
  /\ response' = Reply(200, "profile", profile)
  /\ UNCHANGED <<now, store>>

GetSettings ==
  /\ response' = Reply(200, "settings", settings)
  /\ UNCHANGED <<now, store>>

GetSubscription ==
  /\ response' = Reply(200, "subscription", subscription)
  /\ UNCHANGED <<now, store>>

----------------------------------------------------------------------------
(* run(): HTTPServer.serve_forever takes one connection from the listen    *)
(* queue, runs its handler to the end, and only then takes the next.       *)

Writes == {"session", "nudge", "delete"}
Analyses == {"behavior", "insights"}

\* the requests of one kind waiting in the listen queue
Queued(op) == Cardinality({ i \in DOMAIN backlog : backlog[i].op = op })

\* a client sends a request; it waits in the listen queue.  call.raced
\* records that a write was sent while an analysis call was in flight.
Issue(requests) ==
  /\ Len(backlog) < MaxBacklog
  /\ \E req \in requests :
       /\ req.op = "session" => BagCardinality(sessions) + Queued("session") < MaxServed
       /\ req.op = "nudge" => BagCardinality(nudges) + Queued("nudge") < MaxServed
       /\ backlog' = Append(backlog, req)
       /\ call' = IF call.pc = "running" /\ req.op \in Writes
                  THEN [ call EXCEPT !.raced = TRUE ] ELSE call
  /\ UNCHANGED <<now, store, response>>

\* the tables as a write leaves them join the states an analysis call in
\* flight has lived through
Observed ==
  call' = IF call.pc = "running"
          THEN [ call EXCEPT !.during = @ \cup { <<sessions', nudges'>> } ]
          ELSE call

\* the handler of a request: a write runs to its commit; an analysis opens
\* its connection and has executed no statement yet
Serve(req) ==
  \/ req.op = "session" /\ PostSession(req.data, MaxServed) /\ Observed
  \/ req.op = "nudge" /\ PostNudge(req.data, MaxServed) /\ Observed
  \/ req.op = "delete" /\ DeleteData /\ Observed
  \/ /\ req.op \in Analyses
     /\ call' = [ pc |-> "running", kind |-> req.op, q |-> << >>,
                  during |-> { <<sessions, nudges>> }, raced |-> FALSE ]
     /\ UNCHANGED <<now, store, response>>

\* a server that hands each connection to a thread of its own: a write is
\* handled while an analysis call is in flight
Accept_threaded ==
  /\ backlog # << >>
  /\ Head(backlog).op \in Analyses => call.pc # "running"
  /\ Serve(Head(backlog))
  /\ backlog' = Tail(backlog)

\* serve_forever: the next connection is taken when no handler is running
Accept ==
  /\ call.pc # "running"
  /\ backlog # << >>
  /\ Serve(Head(backlog))
  /\ backlog' = Tail(backlog)

\* the analysis call executes its next statement on the tables as they are
Query ==
  /\ call.pc = "running"
  /\ Len(call.q) < Statements(call.kind)
  /\ LET i == Len(call.q) + 1
         r == IF call.kind = "behavior"
              THEN behavior_query(i, sessions, nudges)
              ELSE insights_query(i, sessions, nudges, now)
     IN  call' = [ call EXCEPT !.q = Append(@, r) ]
  /\ UNCHANGED <<now, store, response, backlog>>

\* the analysis call has executed its statements: it closes the
\* connection and sends its result
Return ==
  /\ call.pc = "running"
  /\ Len(call.q) = Statements(call.kind)
  /\ response' = Reply(200, call.kind,
                       IF call.kind = "behavior" THEN behavior_result(call.q)
                                                 ELSE insights_result(call.q))
  /\ call' = [ call EXCEPT !.pc = "done" ]
  /\ UNCHANGED <<now, store, backlog>>

----------------------------------------------------------------------------
(* The requests the clients send.                                          *)

SessionReq(type, dur, prod, start) ==
  [ app_name |-> JStr("App"), session_type |-> JStr(type),
    duration_min |-> dur, productive |-> prod, started_at |-> start ]

FocusReq(planned, completed, accepted) ==
  [ planned_min |-> planned, completed_min |-> completed,
    accepted_from_nudge |-> accepted ]

NudgeReq(resp) == [ trigger_reason |-> Absent, response |-> resp ]

\* the full API: a scroll session and a productive one started now, a
\* request without its duration
ApiSessionRequests ==
  { SessionReq("scroll", JInt(12), Absent, Absent),
    SessionReq("work", JInt(50), JInt(1), Absent),
    SessionReq("scroll", Absent, Absent, Absent) }

ApiFocusRequests == { FocusReq(Absent, Absent, Absent) }

NudgeRequests == { NudgeReq(JStr("start_focus")), NudgeReq(Absent),
                   NudgeReq(JStr("later")) }

ProfileRequests ==
  { [ name |-> JStr("Ada"), goal_minutes |-> JInt(500), timezone |-> Absent ] }

SettingsRequests ==
  { [ study_mode |-> JInt(0), work_mode |-> Absent, sleep_mode |-> Absent,
      nudge_enabled |-> Absent, nudge_threshold_min |-> JBad,
      theme |-> JStr("dark"), onboarding_done |-> Absent ],
    [ study_mode |-> Absent, work_mode |-> Absent, sleep_mode |-> Absent,
      nudge_enabled |-> Absent, nudge_threshold_min |-> Absent,
      theme |-> JStr("neon"), onboarding_done |-> Absent ] }

SubscriptionRequests == { [ plan |-> JStr("pro") ], [ plan |-> JStr("gold") ] }

\* the risk thresholds: scroll sessions of 24 and 25 minutes and a
\* productive session, all started now
RiskSessionRequests ==
  { SessionReq("scroll", JInt(24), Absent, Absent),
    SessionReq("scroll", JInt(25), Absent, Absent),
    SessionReq("work", JInt(30), JInt(1), Absent) }

\* the dashboard: scroll sessions of 41 and (clamped) 600 minutes started
\* now, a scroll session started the day before
DashboardSessionRequests ==
  { SessionReq("scroll", JInt(41), Absent, Absent),
    SessionReq("scroll", JInt(700), Absent, Absent),
    SessionReq("scroll", JInt(40), Absent, JText(now_iso(now - 24))) }

\* focus blocks: the defaults, a long block cut to 180 minutes, a short
\* block left after 3 minutes
DashboardFocusRequests ==
  { FocusReq(Absent, Absent, Absent),
    FocusReq(JInt(200), Absent, JInt(1)),
    FocusReq(JInt(5), JInt(3), JBad) }

\* the insights: scroll sessions started now, a week ago, a week ahead,
\* and with a started_at that is no timestamp; a session that is no scroll
InsightsSessionRequests ==
  { SessionReq("scroll", JInt(10), Absent, Absent),
    SessionReq("scroll", JInt(20), Absent, JText(now_iso(now - 168))),
    SessionReq("scroll", JInt(30), Absent, JText(now_iso(now + 168))),
    SessionReq("scroll", JInt(5), Absent, JText(EmptyText)),
    SessionReq("scroll", JInt(7), Absent, JText(LetterText)),
    SessionReq("work", JInt(50), JInt(1), Absent) }

----------------------------------------------------------------------------
(* Specifications.                                                         *)

\* the whole API on a small store
Next ==
  \/ init_db /\ Sequential
  \/ PostInvalidJson /\ Sequential
  \/ \E d \in ApiSessionRequests : PostSession(d, MaxRows) /\ Sequential
  \/ \E d \in ApiFocusRequests : PostFocusSession(d, MaxRows) /\ Sequential
  \/ \E d \in NudgeRequests : PostNudge(d, MaxRows) /\ Sequential
  \/ \E d \in ProfileRequests : PutProfile(d) /\ Sequential
  \/ \E d \in SettingsRequests : PutSettings(d) /\ Sequential
  \/ \E d \in SubscriptionRequests : PutSubscription(d) /\ Sequential
  \/ DeleteData /\ Sequential
  \/ GetBehaviorAnalyze /\ Sequential
  \/ GetDashboard /\ Sequential
  \/ GetInsights /\ Sequential
  \/ GetProfile /\ Sequential
  \/ GetSettings /\ Sequential
  \/ GetSubscription /\ Sequential

Spec == Init /\ [][Next]_vars

\* the behavior analysis on a store of many sessions
NextRisk ==
  \/ \E d \in RiskSessionRequests : PostSession(d, RiskMaxSessions) /\ Sequential
  \/ DeleteData /\ Sequential
  \/ GetBehaviorAnalyze /\ Sequential

SpecRisk == Init /\ [][NextRisk]_vars

\* the dashboard as sessions and focus blocks arrive and days pass
NextDashboard ==
  \/ Tick(DashboardReadings) /\ Sequential
  \/ \E d \in DashboardSessionRequests : PostSession(d, MaxSessions) /\ Sequential
  \/ \E d \in DashboardFocusRequests : PostFocusSession(d, MaxFocus) /\ Sequential
  \/ DeleteData /\ Sequential
  \/ GetDashboard /\ Sequential

SpecDashboard == Init /\ [][NextDashboard]_vars

\* the insights as sessions arrive and hours pass
NextInsights ==
  \/ init_db /\ Sequential
  \/ Tick(ClockReadings) /\ Sequential
  \/ \E d \in InsightsSessionRequests : PostSession(d, InsightsMaxSessions) /\ Sequential
  \/ DeleteData /\ Sequential
  \/ GetBehaviorAnalyze /\ Sequential
  \/ GetInsights /\ Sequential

SpecInsights == Init /\ [][NextInsights]_vars

\* the writes with values outside their ranges: durations of 0, below 0,
\* above 600, no number and Infinity, a productive flag of 5
StoredSessionRequests ==
  { SessionReq("scroll", d, Absent, Absent) :
      d \in { JInt(0), JInt(-7), JInt(700), JInt(45), JBad, JInf } }
  \cup { SessionReq("work", JInt(45), JInt(5), Absent),
         SessionReq("work", JInt(45), JInf, Absent) }

\* focus blocks planned below 5 and above 180, completed below 1 and above
\* the plan, with no number and with Infinity
StoredFocusRequests ==
  { FocusReq(JInt(4), JInt(0), Absent),
    FocusReq(JInt(200), JInt(500), Absent),
    FocusReq(JBad, JInt(-1), Absent),
    FocusReq(JInt(10), JInt(50), JInt(7)),
    FocusReq(JInt(30), JBad, Absent),
    FocusReq(Absent, JInt(20), Absent),
    FocusReq(JInf, Absent, Absent),
    FocusReq(JInt(10), JInf, Absent) }

\* nudges answered with each allowed response, none, and two others
StoredNudgeRequests ==
  { NudgeReq(r) : r \in { JStr("start_focus"), JStr("snooze"), JStr("dismiss"),
                          Absent, JStr("later"), JStr("") } }

\* the writes of the API with values outside their ranges
NextStored ==
  \/ init_db /\ Sequential
  \/ \E d \in StoredSessionRequests : PostSession(d, MaxStored) /\ Sequential
  \/ \E d \in StoredFocusRequests : PostFocusSession(d, MaxStored) /\ Sequential
  \/ \E d \in StoredNudgeRequests : PostNudge(d, MaxStored) /\ Sequential
  \/ DeleteData /\ Sequential

SpecStored == Init /\ [][NextStored]_vars

\* the requests sent to the server at any moment: a scroll session and a
\* productive one, an accepted nudge and a dismissed one, a data reset,
\* and the two analyses
ServerRequests ==
  { [ op |-> "session", data |-> SessionReq("scroll", JInt(30), Absent, Absent) ],
    [ op |-> "session", data |-> SessionReq("work", JInt(50), JInt(1), Absent) ],
    [ op |-> "nudge", data |-> NudgeReq(JStr("start_focus")) ],
    [ op |-> "nudge", data |-> NudgeReq(Absent) ],
    [ op |-> "delete", data |-> << >> ],
    [ op |-> "behavior", data |-> << >> ],
    [ op |-> "insights", data |-> << >> ] }

\* the server and its clients
NextServer ==
  \/ Issue(ServerRequests)
  \/ Accept
  \/ Query
  \/ Return

SpecServer == Init /\ [][NextServer]_vars

\* the rates of the analysis and of the insights as sessions and nudges arrive
NextRatios ==
  \/ \E d \in ApiSessionRequests : PostSession(d, RatioMaxSessions) /\ Sequential
  \/ \E d \in NudgeRequests : PostNudge(d, MaxNudges) /\ Sequential
  \/ DeleteData /\ Sequential
  \/ GetBehaviorAnalyze /\ Sequential
  \/ GetInsights /\ Sequential

SpecRatios == Init /\ [][NextRatios]_vars

----------------------------------------------------------------------------
(* Properties.                                                             *)

\* the response in hand was computed from the store and the clock as they are
Fresh(kind) == response.kind = kind /\ response.date = now

\* the rows of a table whose started_at is a timestamp
Parseable(S) == [ r \in { x \in DOMAIN S : IsTimestamp(x.started_at) } |-> S[r] ]

\* today's scrolling minutes and today's completed focus minutes
ScrollingToday ==
  Sum(sessions, LAMBDA r : IF IsScroll(r) /\ IsToday(r.started_at, now)
                           THEN r.duration_min ELSE 0)
FocusDoneToday ==
  Sum(focus_sessions, LAMBDA r : IF IsToday(r.created_at, now)
                                 THEN r.completed_min ELSE 0)

\* the classification read off two reported values
RiskOfReported(ratio, avg) ==
  IF Gt(ratio, 55) \/ Gt(avg, 24) THEN "high"
  ELSE IF Gt(ratio, 35) \/ Gt(avg, 16) THEN "medium"
  ELSE "low"

\* C1: the risk_level of a behavior analysis is the one its own reported
\* scroll_ratio_pct and avg_scroll_session_min give: high above 55 or 24,
\* else medium above 35 or 16, else low.
C1_RiskFromReported ==
  response.kind = "behavior" =>
    response.body.risk_level =
      RiskOfReported(response.body.scroll_ratio_pct,
                     response.body.avg_scroll_session_min)

\* the integer nearest to T/5 (no T/5 lies halfway between two integers)
RoundFifths(T) == (2 * T + 5) \div 10

\* C2: the dashboard's focus_score is 100 - 0.8*scrolling + 0.6*focus_done
\* rounded to the nearest integer and then clamped to [0,100].
C2_FocusScoreRounded ==
  Fresh("dashboard") =>
    response.body.focus_score =
      Max(0, Min(100, RoundFifths(500 - 4 * ScrollingToday + 3 * FocusDoneToday)))

\* a created_at or started_at that denotes an instant of [now - 6 days, now]
InTrailingWindow(text) ==
  IsTimestamp(text) /\ now - 144 <= TimeOf(text) /\ TimeOf(text) <= now

\* C3: the dashboard's streak_days is min(7, N), N the number of focus
\* sessions created in [now - 6 days, now]; one created before now - 6 days
\* is not counted.
C3_StreakWindow ==
  Fresh("dashboard") =>
    response.body.streak_days =
      Min(7, Count(focus_sessions, LAMBDA r : InTrailingWindow(r.created_at)))

\* the minutes of the sessions started in the trailing 7 days on weekday d
\* (0 = Sunday)
MinutesOn(d) ==
  Sum(sessions, LAMBDA r : IF InTrailingWindow(r.started_at)
                              /\ Day(TimeOf(r.started_at)) % 7 = d
                           THEN r.duration_min ELSE 0)

\* C4: weekly_minutes has 7 elements, element i (Monday first) the minutes
\* of the sessions whose started_at is in the trailing 7 days and on that
\* weekday, whatever their created_at and the order they were inserted in.
C4_WeeklyByStartedAt ==
  Fresh("insights") =>
    response.body.weekly_minutes = [ i \in 1 .. 7 |-> MinutesOn(i % 7) ]

\* the number of scroll sessions started in hour h of the day
ScrollsAt(h) ==
  Count(sessions, LAMBDA r : IsScroll(r) /\ IsTimestamp(r.started_at)
                             /\ r.started_at[3] = h)

\* C5: when scroll sessions with an hour exist, the hour of ai_sentence is
\* an hour of the day with the most scroll sessions, the largest such hour.
C5_TopHourLatestOfMost ==
  (response.kind = "insights" /\ \E h \in 0 .. 23 : ScrollsAt(h) > 0) =>
    LET hour == response.body.ai_sentence[2]
    IN  /\ hour \in 0 .. 23
        /\ \A h \in 0 .. 23 :
             ScrollsAt(hour) > ScrollsAt(h)
             \/ (ScrollsAt(hour) = ScrollsAt(h) /\ hour >= h)

\* C6: sessions whose started_at is no timestamp count in the totals and
\* in nothing bucketed by hour or day: late_night_scroll_sessions,
\* weekly_minutes and the hour of ai_sentence are those of the store
\* without them.
C6_MalformedExcluded ==
  /\ response.kind = "behavior" =>
       /\ response.body.late_night_scroll_sessions = late_scroll(Parseable(sessions))
       /\ response.body.scroll_ratio_pct =
            ratio_pct(Count(sessions, IsScroll), BagCardinality(sessions))
       /\ response.body.productive_ratio_pct =
            ratio_pct(Count(sessions, LAMBDA r : r.productive = 1),
                      BagCardinality(sessions))
       /\ response.body.avg_scroll_session_min = round_avg(avg_scroll_duration(sessions))
  /\ Fresh("insights") =>
       /\ response.body.weekly_minutes = ordered(Parseable(sessions), now)
       /\ response.body.ai_sentence = ai_sentence(top_hour(Parseable(sessions)))

StoreEmpty == BagCardinality(sessions) = 0 /\ BagCardinality(nudges) = 0

\* C7: on a store with no sessions and no nudges the behavior analysis
\* answers 200 with risk_level "low", the three rates and the average 0,
\* no late-night scroll session, and the gentle-reminders advice first.
C7_EmptyStoreZeroed ==
  (response.kind = "behavior" /\ StoreEmpty) =>
    /\ response.status = 200
    /\ response.body.risk_level = "low"
    /\ response.body.scroll_ratio_pct[1] = 0
    /\ response.body.productive_ratio_pct[1] = 0
    /\ response.body.avg_scroll_session_min[1] = 0
    /\ response.body.nudge_accept_rate[1] = 0
    /\ response.body.late_night_scroll_sessions = 0
    /\ response.body.recommendations[1] = "Keep night mode gentle reminders enabled."

\* the analysis was asked for after a data reset emptied the store
C7_Witness ==
  /\ response.kind = "behavior"
  /\ StoreEmpty
  /\ response.body.risk_level = "low"

\* C8: with today's focus minutes fixed, more scrolling minutes never give
\* a higher focus_score than the dashboard's; with today's scrolling
\* minutes fixed, more focus minutes never give a lower one.
C8_FocusScoreMonotone ==
  Fresh("dashboard") =>
    \A k \in 1 .. MaxIncrease :
      /\ focus_score(ScrollingToday + k, FocusDoneToday) <= response.body.focus_score
      /\ focus_score(ScrollingToday, FocusDoneToday + k) >= response.body.focus_score

\* a dashboard whose linear score is below 0: 600 scrolling minutes and
\* some focus minutes today
C8_Witness ==
  /\ Fresh("dashboard")
  /\ ScrollingToday >= 600
  /\ FocusDoneToday > 0
  /\ response.body.focus_score = 0

\* a rate within [0,100] with at most one decimal place
IsPct(v) == 0 <= v[1] /\ v[1] <= 100 * v[2]
OneDecimal(v) == (10 * v[1]) % v[2] = 0

\* C9: the three rates of the behavior analysis are within [0,100] with at
\* most one decimal place, and the insights' nudge_accept_rate is the
\* behavior analysis' for the same store.
C9_RatesBounded ==
  /\ response.kind = "behavior" =>
       \A v \in { response.body.scroll_ratio_pct,
                  response.body.productive_ratio_pct,
                  response.body.nudge_accept_rate } : IsPct(v) /\ OneDecimal(v)
  /\ response.kind = "insights" =>
       response.body.nudge_accept_rate =
         build_behavior_analysis(sessions, nudges).nudge_accept_rate

\* an analysis of a store whose scroll ratio has a decimal and one of whose
\* two nudges was accepted
C9_Witness ==
  /\ response.kind = "behavior"
  /\ response.body.scroll_ratio_pct[1] % 10 # 0
  /\ response.body.nudge_accept_rate = <<500, 10>>

\* C10: a request answered by the behavior analysis, the dashboard or the
\* insights leaves the sessions, focus sessions, nudges, profile, settings
\* and subscription as they were.
C10_AnalysisReadsOnly ==
  [][ (response' # response
       /\ response'.kind \in {"behavior", "dashboard", "insights"})
      => store' = store ]_vars

\* the insights of a store that holds a nudge, under a changed subscription
C10_Witness ==
  /\ response.kind = "insights"
  /\ BagCardinality(nudges) > 0
  /\ subscription.plan = "pro"

\* C11: every stored session has duration_min in [1,600], every stored
\* focus session has planned_min in [5,180] and 1 <= completed_min <=
\* planned_min, and every stored nudge has one of the three allowed
\* responses, whatever values the requests carried.
C11_StoredInRange ==
  /\ \A r \in DOMAIN sessions : 1 <= r.duration_min /\ r.duration_min <= 600
  /\ \A r \in DOMAIN focus_sessions :
       /\ 5 <= r.planned_min /\ r.planned_min <= 180
       /\ 1 <= r.completed_min /\ r.completed_min <= r.planned_min
  /\ \A r \in DOMAIN nudges : r.response \in {"start_focus", "snooze", "dismiss"}

\* a store written by requests outside the ranges: a session of 700
\* minutes kept as 600 and one of no number kept as 1, a focus block of
\* 200 planned and 500 completed minutes kept as 180 and 180, a nudge
C11_Witness ==
  /\ \E r \in DOMAIN sessions : r.duration_min = 600 /\ r.created_at = now_iso(now)
  /\ \E r \in DOMAIN sessions : r.duration_min = 1
  /\ \E r \in DOMAIN focus_sessions : r.planned_min = 180 /\ r.completed_min = 180
  /\ \E r \in DOMAIN focus_sessions : r.planned_min = 5 /\ r.completed_min = 1
  /\ BagCardinality(nudges) > 0

\* the result an analysis endpoint computes from one state of the tables
AnalysisOf(kind, S, N) ==
  IF kind = "behavior" THEN build_behavior_analysis(S, N) ELSE insights(S, N, now)

\* C12: the result an analysis call returns is, field for field, the
\* result of the analysis on one state of the sessions and nudges tables
\* that existed during the call, whatever inserts and resets were sent
\* while it was in flight; in particular its scroll count is within its
\* total.
C12_SingleSnapshot ==
  (call.pc = "done" /\ response.kind = call.kind) =>
    /\ \E sn \in call.during : response.body = AnalysisOf(call.kind, sn[1], sn[2])
    /\ call.q[IF call.kind = "behavior" THEN 2 ELSE 6]
         <= call.q[IF call.kind = "behavior" THEN 1 ELSE 5]

\* an insights call has returned, and an insert of a session sent while it
\* was in flight is still waiting for the server
C12_Witness ==
  /\ call.pc = "done"
  /\ response.kind = "insights"
  /\ call.raced
  /\ backlog # << >>
  /\ Head(backlog).op = "session"

====
